---- MODULE Spec2Model ----
(***************************************************************************)
(* Model of src/w2d2/w2d2_commit_solution.py: a minimal container runtime  *)
(* on btrfs subvolumes (init / images / ps / run / commit / rm).           *)
(*                                                                         *)
(* Strings (ids, arguments, paths, file data) are sequences of one-        *)
(* character strings, so that Python's substring test `x in stdout`, the   *)
(* f-string that builds an id and str.strip() are computed, not assumed.   *)
(* A volume's content is its file tree: a function from relative paths to  *)
(* the data of a file or to the mark of a directory.  The storage root is  *)
(* a function from volume ids to content.                                  *)
(***************************************************************************)
EXTENDS Integers, Sequences, FiniteSets, TLC

(***************************************************************************)
(* Bounds of the model.                                                    *)
(***************************************************************************)
\* how many values of the draw space 42002..42254 the random draw ranges over
NumDraws == 2
\* how many calls a behaviour of Spec makes, those init and run make of
\* themselves included
MaxOps == 4
\* how many calls a behaviour of SpecArgs makes, those init and run make of
\* themselves included
MaxArgOps == 3
\* how many calls a behaviour of SpecProc makes, those init and run make of
\* themselves included
MaxProcOps == 3
\* how many calls a behaviour of SpecList makes, those init and run make of
\* themselves included
MaxListOps == 4
\* how many calls a behaviour of SpecDraw makes
MaxDrawOps == 4
\* how many calls a behaviour of SpecFair makes
MaxFairOps == 2
\* how many calls each of the concurrent callers of SpecRace makes
MaxRaceCalls == 1

(***************************************************************************)
(* Program constants.                                                      *)
(***************************************************************************)
DrawLo == 42002
DrawHi == 42254
\* The interpreter's stack.  init and run call themselves on a collision, one
\* frame deeper each time.  CallerFrames is the number of frames in use
\* where the program calls init and run: the module and test_commit.
\* CheckDepth is the deepest frame from which _docker_check still runs
\* subprocess.run: CPython's recursion limit of 1000 less the 11 frames of
\* that call; one frame deeper it raises RecursionError.
CallerFrames == 2
CheckDepth == 989

(***************************************************************************)
(* String literals of the program.                                         *)
(***************************************************************************)
PrefixImg == <<"i","m","g","_">>
PrefixPs == <<"p","s","_">>
ImgSource == <<"i","m","g",".","s","o","u","r","c","e">>
CmdSuffix == <<".","c","m","d">>
LogSuffix == <<".","l","o","g">>
EtcDir == <<"e","t","c">>
ResolvConf == <<"e","t","c","/","r","e","s","o","l","v",".","c","o","n","f">>
NL == <<"\n">>
\* Python's None; no string equals it
None == <<"None">>

(***************************************************************************)
(* Python string operations.                                               *)
(***************************************************************************)
\* `sub in s`
IsSubstring(sub, s) ==
    \/ sub = <<>>
    \/ \E i \in 1..(Len(s) - Len(sub) + 1) :
          s[i] = sub[1] /\ SubSeq(s, i, i + Len(sub) - 1) = sub

\* s.startswith(p); also what the glob patterns img_* and ps_* match
StartsWith(s, p) == Len(p) <= Len(s) /\ SubSeq(s, 1, Len(p)) = p

\* the characters str.isspace() holds of, as far as a TLA+ string can hold
\* them: the ASCII ones, then VT, FS, GS, RS, US, NEL, the no-break space and
\* the Ogham space mark (the spaces U+2000..U+3000 are no TLA+ characters)
Whitespace ==
    {" ", "\t", "\n", "\r", "\f",
     "", "", "", "", "", "", " ", " "}

\* s.strip()
Strip(s) ==
    LET RECURSIVE LStrip(_)
        LStrip(t) == IF t # <<>> /\ Head(t) \in Whitespace THEN LStrip(Tail(t)) ELSE t
        RECURSIVE RStrip(_)
        RStrip(t) == IF t # <<>> /\ t[Len(t)] \in Whitespace
                     THEN RStrip(SubSeq(t, 1, Len(t) - 1)) ELSE t
    IN  LStrip(RStrip(s))

\* ' '.join(words)
RECURSIVE Join(_)
Join(words) ==
    IF words = <<>> THEN <<>>
    ELSE IF Len(words) = 1 THEN words[1]
    ELSE words[1] \o <<" ">> \o Join(Tail(words))

\* str(n) for n >= 0, as the f-string formats the drawn integer
RECURSIVE Decimal(_)
Decimal(n) ==
    LET Digit(d) == <<"0","1","2","3","4","5","6","7","8","9">>[d + 1]
    IN  IF n < 10 THEN <<Digit(n)>> ELSE Decimal(n \div 10) \o <<Digit(n % 10)>>

(***************************************************************************)
(* File trees.                                                             *)
(***************************************************************************)
\* A tree holds an entry for every file and every directory below its top:
\* a file's entry is its data, a directory's is Directory, which no data
\* equals.  The top itself has no entry; it is a directory.
Directory == <<"<dir>">>
EmptyTree == [p \in {} |-> <<>>]
\* a storage root without subvolumes
NoVols == [v \in {} |-> EmptyTree]
\* [[ -f path ]]
HasFile(tree, path) == path \in DOMAIN tree /\ tree[path] # Directory
\* [[ -d path ]]
HasDir(tree, dir) == dir = <<>> \/ (dir \in DOMAIN tree /\ tree[dir] = Directory)
\* the last component of a path, and the path of the directory it lies in
Basename(path) ==
    LET slashes == {i \in 1..Len(path) : path[i] = "/"}
        cut == CHOOSE i \in slashes : \A j \in slashes : j <= i
    IN  IF slashes = {} THEN path ELSE SubSeq(path, cut + 1, Len(path))
Dirname(path) == SubSeq(path, 1, Len(path) - Len(Basename(path)) - 1)
\* open path for writing and write data (`> path`, tee path, a program
\* installing a file): fails, leaving the tree as it is, when path is a
\* directory or does not lie in a directory
Put(tree, path, data) ==
    \* t is the tree, computed once
    CHOOSE r \in {IF HasDir(t, path) \/ ~HasDir(t, Dirname(path))
                  THEN [rc |-> 1, tree |-> t]
                  ELSE [rc |-> 0, tree |-> (path :> data) @@ t] : t \in {tree}} : TRUE
\* cp file path, file holding data under the name name: written into path
\* when path is a directory, to path otherwise
CopyFile(tree, name, data, path) ==
    \* t is the tree, computed once
    CHOOSE r \in {IF HasDir(t, path) THEN Put(t, path \o <<"/">> \o name, data)
                  ELSE Put(t, path, data) : t \in {tree}} : TRUE
\* open(path, 'r').read(): text mode turns the line endings \r\n and \r
\* into \n; a directory cannot be opened
TextRead(tree, path) ==
    LET RECURSIVE text(_)
        text(data) ==
            IF data = <<>> THEN <<>>
            ELSE IF Head(data) # "\r" THEN <<Head(data)>> \o text(Tail(data))
            ELSE IF Len(data) >= 2 /\ data[2] = "\n" THEN NL \o text(Tail(Tail(data)))
            ELSE NL \o text(Tail(data))
    IN  CASE HasFile(tree, path) -> text(tree[path])
\* what the shell's * matches in a directory: the entries whose name does not
\* start with a dot, with all that lies below them
GlobStar(tree) == {p \in DOMAIN tree : Head(p) # "."}

(***************************************************************************)
(* The host outside the storage root: the directories init can be given    *)
(* and the host's /etc/resolv.conf.  /base is an unpacked image with a     *)
(* shell, mount and yum and an empty /proc; /empty holds nothing; /dots    *)
(* holds only a file whose name starts with a dot; /marked holds an        *)
(* img.source written by an earlier init, with Windows line ends; /nodir   *)
(* does not exist.  Of the rest of the host (its root, its other           *)
(* directories, the working directory) the model says nothing.             *)
(***************************************************************************)
DirBase == <<"/","b","a","s","e">>
DirEmpty == <<"/","e","m","p","t","y">>
DirDots == <<"/","d","o","t","s">>
DirMarked == <<"/","m","a","r","k","e","d">>
DirMissing == <<"/","n","o","d","i","r">>
EtcHosts == <<"e","t","c","/","h","o","s","t","s">>
BinDir == <<"b","i","n">>
BinSh == <<"b","i","n","/","s","h">>
BinMount == <<"b","i","n","/","m","o","u","n","t">>
BinYum == <<"b","i","n","/","y","u","m">>
BinWget == <<"b","i","n","/","w","g","e","t">>
ProcDir == <<"p","r","o","c">>
DotEnv == <<".","d","o","c","k","e","r","e","n","v">>
HostResolv == <<"n","s">>
HostDirs ==
    (DirBase :> ((EtcDir :> Directory) @@ (EtcHosts :> <<"h">>)
                 @@ (BinDir :> Directory) @@ (BinSh :> <<"s">>)
                 @@ (BinMount :> <<"m">>) @@ (BinYum :> <<"y">>)
                 @@ (ProcDir :> Directory) @@ (DotEnv :> <<>>)))
    @@ (DirEmpty :> EmptyTree)
    @@ (DirDots :> (DotEnv :> <<>>))
    @@ (DirMarked :> (ImgSource :> <<"/","o","l","d","\r","\n">>))
\* a regular file of the host
DirFile == DirBase \o <<"/">> \o EtcHosts
DirNames == {DirBase, DirEmpty, DirDots, DirMarked, DirFile, DirMissing}

\* the known part of the host as one tree, its paths relative to /
Host ==
    LET top(d) == Tail(d)
        paths == UNION {{top(d)} \cup {top(d) \o <<"/">> \o q : q \in DOMAIN HostDirs[d]} :
                           d \in DOMAIN HostDirs}
        owner(p) == CHOOSE d \in DOMAIN HostDirs :
                        p = top(d) \/ StartsWith(p, top(d) \o <<"/">>)
    IN  [p \in paths |->
            IF p = top(owner(p)) THEN Directory
            ELSE HostDirs[owner(p)][SubSeq(p, Len(owner(p)) + 1, Len(p))]]

\* s split at the characters of seps: its maximal runs of other characters
Split(s, seps) ==
    LET \* where a part of t starts, and where the part starting at a ends
        starts(t) ==
            {i \in 1..Len(t) : t[i] \notin seps /\ (i = 1 \/ t[i - 1] \in seps)}
        end(t, a) == CHOOSE b \in a..Len(t) :
                         /\ \A i \in a..b : t[i] \notin seps
                         /\ b = Len(t) \/ t[b + 1] \in seps
        part(t, at, k) ==
            LET a == CHOOSE i \in at : Cardinality({j \in at : j < i}) = k - 1
            IN  SubSeq(t, a, end(t, a))
    IN  \* t is s and at its starts, each computed once
        CHOOSE parts \in {[k \in 1..Cardinality(at) |-> part(t, at, k)] :
                               t \in {s}, at \in {starts(s)}} : TRUE

\* the entry of the host an absolute path names, relative to / (the empty
\* path for / itself), or None when it names nothing.  Slashes at the end
\* or doubled and the component . add nothing (pathlib drops them before
\* the file system is asked); every component but the last has to be a
\* directory, and .. leads to the directory above one.  Below / only the
\* names of HostDirs and of DirMissing are known.
Resolve(directory) ==
    LET RECURSIVE walk(_, _)
        walk(at, names) ==
            IF names = <<>> \/ at = None THEN at
            ELSE IF Head(names) = <<".">> THEN walk(at, Tail(names))
            ELSE IF ~HasDir(Host, at) THEN None
            ELSE IF Head(names) = <<".", ".">> THEN walk(Dirname(at), Tail(names))
            ELSE IF at # <<>>
            THEN walk(IF at \o <<"/">> \o Head(names) \in DOMAIN Host
                      THEN at \o <<"/">> \o Head(names) ELSE None, Tail(names))
            ELSE CASE <<"/">> \o Head(names) \in DOMAIN HostDirs \cup {DirMissing} ->
                      walk(IF Head(names) \in DOMAIN Host THEN Head(names) ELSE None,
                           Tail(names))
    IN  CASE directory # <<>> /\ Head(directory) = "/" ->
            walk(<<>>, Split(directory, {"/"}))

\* Path(directory).exists(): true of a directory and of a regular file alike
directory_exists(directory) == Resolve(directory) # None

\* what lies below a path of the host, as the glob "directory"/* finds it:
\* nothing when it is a file or missing
HostTree(directory) ==
    LET below(at) ==
            CASE at = None \/ (at # <<>> /\ ~HasDir(Host, at)) -> EmptyTree
              [] at # <<>> /\ HasDir(Host, at) ->
                   [p \in {SubSeq(f, Len(at) + 2, Len(f)) :
                              f \in {g \in DOMAIN Host : StartsWith(g, at \o <<"/">>)}} |->
                       Host[at \o <<"/">> \o p]]
    IN  \* at is the entry the path names, computed once
        CHOOSE tree \in {below(at) : at \in {Resolve(directory)}} : TRUE

(***************************************************************************)
(* Storage engine: btrfs subvolumes under the storage root.  vols maps the *)
(* path of each subvolume, relative to the root, to its content.  Each     *)
(* command yields its exit code and the volumes it leaves.                 *)
(***************************************************************************)
\* btrfs subvolume create root/id
BtrfsCreate(vols, id) ==
    IF id \in DOMAIN vols
    THEN [rc |-> 1, vols |-> vols]
    ELSE [rc |-> 0, vols |-> (id :> EmptyTree) @@ vols]

\* the path root/id names, relative to the root: slashes at either end of id
\* add nothing to it
RECURSIVE SubvolumePath(_)
SubvolumePath(id) ==
    IF id # <<>> /\ Head(id) = "/" THEN SubvolumePath(Tail(id))
    ELSE IF id # <<>> /\ id[Len(id)] = "/" THEN SubvolumePath(SubSeq(id, 1, Len(id) - 1))
    ELSE id

\* btrfs subvolume delete root/id: fails when root/id is no subvolume, is the
\* root itself, or holds a nested subvolume
BtrfsDelete(vols, id) ==
    LET path == SubvolumePath(id)
    IN  IF path \in DOMAIN vols
           /\ ~ \E v \in DOMAIN vols : StartsWith(v, path \o <<"/">>)
        THEN [rc |-> 0, vols |-> [v \in DOMAIN vols \ {path} |-> vols[v]]]
        ELSE [rc |-> 1, vols |-> vols]

\* the storage root is the mount point of the btrfs file system, hence its
\* top-level subvolume: root/ with an empty name is the root itself, named
\* docker_demo, holding no file of its own (a snapshot shows the nested
\* subvolumes as empty directories); it cannot be deleted
RootName == <<"d","o","c","k","e","r","_","d","e","m","o">>
\* what a snapshot of the subvolume at path holds: its own entries, and an
\* empty directory for every subvolume nested in it
SubvolumeTree(vols, path) ==
    LET pre == IF path = <<>> THEN <<>> ELSE path \o <<"/">>
        nested == {SubSeq(v, Len(pre) + 1, Len(v)) :
                      v \in {w \in DOMAIN vols :
                                /\ Len(w) > Len(pre) /\ StartsWith(w, pre)
                                /\ \A i \in (Len(pre) + 1)..Len(w) : w[i] # "/"}}
    IN  [n \in nested |-> Directory] @@ (IF path = <<>> THEN EmptyTree ELSE vols[path])

\* btrfs subvolume snapshot root/src root/dst: fails when root/src is no
\* subvolume; when root/dst already exists the snapshot is made inside it,
\* under the source's name, which has to be free there
BtrfsSnapshot(vols, src, dst) ==
    LET from == SubvolumePath(src)
        to == SubvolumePath(dst)
        exists(path) == path = <<>> \/ path \in DOMAIN vols
        name == IF from = <<>> THEN RootName ELSE Basename(from)
        inside == IF to = <<>> THEN name ELSE to \o <<"/">> \o name
    IN  IF ~exists(from) THEN [rc |-> 1, vols |-> vols]
        ELSE IF ~exists(to)
        THEN [rc |-> 0, vols |-> (to :> SubvolumeTree(vols, from)) @@ vols]
        ELSE IF inside \in DOMAIN vols \/ name \in DOMAIN SubvolumeTree(vols, to)
        THEN [rc |-> 1, vols |-> vols]
        ELSE [rc |-> 0, vols |-> (inside :> SubvolumeTree(vols, from)) @@ vols]

\* one line of `btrfs subvolume list`: ID <n> gen <g> top level 5 path <id>.
\* The numbers n and g are given by the file system, from the subvolumes and
\* transactions it has seen; Numbered is the line for given n and g.
Numbered(n, g, id) ==
    <<"I","D"," ">> \o n \o <<" ","g","e","n"," ">> \o g
    \o <<" ","t","o","p"," ","l","e","v","e","l"," ","5"," ","p","a","t","h"," ">>
    \o id \o NL
\* the line with its two numbers left open: each a cell no character equals
ListLine(id) == Numbered(<<"<n>">>, <<"<g>">>, id)

Digits == {"0","1","2","3","4","5","6","7","8","9"}

\* _docker_check: the argument occurs in the text `btrfs subvolume list`
\* prints, one line per subvolume; the empty string occurs in any text, the
\* empty listing included.  Whether an argument that is found nowhere else
\* occurs on the numbers or across two lines is for the file system to say:
\* the operator has no value there.
docker_check(container_id, vols) ==
    LET s == container_id
        \* the runs of digits within s, and 0
        numbers == {SubSeq(s, p[1], p[2]) :
                       p \in {q \in (1..Len(s)) \X (1..Len(s)) :
                                 q[1] <= q[2] /\ \A k \in q[1]..q[2] : s[k] \in Digits}}
                   \cup {<<"0">>}
        \* s occurs in the line of some volume for some numbers n and g, on
        \* the numbers: it starts in `ID n` or in ` gen g`
        OnNumbers ==
            /\ Head(s) \in Digits \cup {"I", "D", " ", "g", "e", "n"}
            /\ \E v \in DOMAIN vols, n \in numbers, g \in numbers :
                   IsSubstring(s, Numbered(n, g, v))
        \* s holds a newline before its last character: it can only occur
        \* across two lines, which depends on the order of the lines
        SpansLines == \E i \in 1..(Len(s) - 1) : s[i] = "\n"
    IN  IF \/ s = <<>>
           \/ \E v \in DOMAIN vols : IsSubstring(s, ListLine(v))
        THEN TRUE
        ELSE CASE ~SpansLines /\ ~OnNumbers -> FALSE

\* _generate_uuid, n being the value random.randint draws
generate_uuid(prefix, n) == prefix \o Decimal(n)

\* the values random.randint(42002, 42254) draws in the model
DrawSpace == {n \in DrawLo..DrawHi : n < DrawLo + NumDraws}

(***************************************************************************)
(* The commands run inside a container, as the scripts paste them and as   *)
(* the container's shell runs them.  The image is the one the repository   *)
(* sets up (almalinux:9, whose /bin/sh is bash), the commands those of the *)
(* repository's own test.                                                  *)
(***************************************************************************)
Wget == <<"w","g","e","t">>
Yum == <<"y","u","m">>
Install == <<"i","n","s","t","a","l","l">>
DashY == <<"-","y">>
Echo == <<"e","c","h","o">>
\* the arguments of the repository's test: wget -qO- http://httpbin.org/get
DashQO == <<"-","q","O","-">>
Url == <<"h","t","t","p",":","/","/","h","t","t","p","b","i","n",".","o",
         "r","g","/","g","e","t">>
Blank == <<" ">>
\* a command of whitespace that is not a space
BlankCR == <<"\r">>

\* the characters the shell gives no meaning in the script's double quotes
\* or in the command line of /bin/sh -c: letters, digits, space, tab and - . / : _
\* a command the scripts paste as it is.  A command holding any other
\* character is read by the shell as part of the script (a quote ends the
\* string, a dollar names a variable, a semicolon another command): the
\* operators of this section have no value for it.
ShellPlain(command) ==
    LET PlainChars ==
            {"a","b","c","d","e","f","g","h","i","j","k","l","m","n","o","p","q","r","s","t","u","v","w","x","y","z"}
            \cup {"A","B","C","D","E","F","G","H","I","J","K","L","M","N","O","P","Q","R","S","T","U","V","W","X","Y","Z"}
            \cup Digits \cup {" ", "\t", "-", ".", "/", ":", "_"}
    IN  \A i \in 1..Len(command) : command[i] \in PlainChars
\* the backquote, which no TLA+ string holds
Backquote == "<backquote>"
\* an id or path that stays one word between the script's double quotes
Quotable(s) == \A i \in 1..Len(s) : s[i] \notin {"\"", "$", Backquote, "\\"}

\* the shell's splitting of a command into words at spaces and tabs
Words(s) == Split(s, {" ", "\t"})

\* what bash's echo prints for its words: the leading options (-n, -e, -E
\* or several of these letters) are taken off, -n leaves out the newline;
\* the words hold no backslash for -e to expand
RECURSIVE EchoText(_, _)
EchoText(words, newline) ==
    LET IsOption(word) ==
            /\ Len(word) >= 2 /\ Head(word) = "-"
            /\ \A i \in 2..Len(word) : word[i] \in {"n", "e", "E"}
    IN  IF words # <<>> /\ IsOption(Head(words))
        THEN EchoText(Tail(words),
                      newline /\ \A i \in 2..Len(Head(words)) : Head(words)[i] # "n")
        ELSE Join(words) \o (IF newline THEN NL ELSE <<>>)

\* the message of the image's shell (bash, called as /bin/sh -c) for a
\* program it does not find, with exit code 127
NotFound(word) ==
    <<"/","b","i","n","/","s","h",":"," ","l","i","n","e"," ","1",":"," ">> \o word
    \o <<":"," ","c","o","m","m","a","n","d"," ","n","o","t"," ","f","o","u","n","d","\n">>
\* wget without a URL, exit code 1
UsageText ==
    <<"w","g","e","t",":"," ","m","i","s","s","i","n","g"," ","U","R","L",
      "\n","U","s","a","g","e",":"," ","w","g","e","t"," ","[","O","P","T",
      "I","O","N","]",".",".","."," ","[","U","R","L","]",".",".",".","\n",
      "\n","T","r","y"," ",Backquote,"w","g","e","t"," ","-","-","h","e",
      "l","p","'"," ","f","o","r"," ","m","o","r","e"," ","o","p","t","i",
      "o","n","s",".","\n">>
\* of the body httpbin.org answers with, the line that names the url asked
\* for (the rest of the body names the caller's address and headers)
FetchedText ==
    <<" "," ","\"","u","r","l","\"",":"," ","\"">> \o Url \o <<"\"","\n">>
\* the last line of yum's report
YumText == <<"C","o","m","p","l","e","t","e","!","\n">>
\* what unshare prints when it may not create the namespaces, exit code 1
UnshareErrorText ==
    <<"u","n","s","h","a","r","e",":"," ","u","n","s","h","a","r","e"," ",
      "f","a","i","l","e","d",":"," ","O","p","e","r","a","t","i","o","n",
      " ","n","o","t"," ","p","e","r","m","i","t","t","e","d","\n">>
\* what chroot prints when the container holds no /bin/sh, exit code 127.
\* In the UTF-8 locale the script runs in, chroot quotes the path with the
\* single quotation marks U+2018 and U+2019, which no TLA+ string holds:
\* the cells "<U+2018>" and "<U+2019>" each stand for that one character.
ChrootErrorText ==
    <<"c","h","r","o","o","t",":"," ","f","a","i","l","e","d"," ","t","o",
      " ","r","u","n"," ","c","o","m","m","a","n","d"," ","<U+2018>","/","b","i",
      "n","/","s","h","<U+2019>",":"," ","N","o"," ","s","u","c","h"," ","f","i",
      "l","e"," ","o","r"," ","d","i","r","e","c","t","o","r","y","\n">>
\* what mount prints when the container holds no directory /proc, exit
\* code 32
MountPointText ==
    <<"m","o","u","n","t",":"," ","/","p","r","o","c",":"," ","m","o","u",
      "n","t"," ","p","o","i","n","t"," ","d","o","e","s"," ","n","o","t",
      " ","e","x","i","s","t",".","\n"," "," "," "," "," "," "," ","d","m",
      "e","s","g","(","1",")"," ","m","a","y"," ","h","a","v","e"," ","m",
      "o","r","e"," ","i","n","f","o","r","m","a","t","i","o","n"," ","a",
      "f","t","e","r"," ","f","a","i","l","e","d"," ","m","o","u","n","t",
      " ","s","y","s","t","e","m"," ","c","a","l","l",".","\n">>
\* what the shell prints when the container holds no /bin/mount, exit code 127
MountErrorText ==
    <<"/","b","i","n","/","s","h",":"," ","l","i","n","e"," ","1",":"," ",
      "/","b","i","n","/","m","o","u","n","t",":"," ","N","o"," ","s","u",
      "c","h"," ","f","i","l","e"," ","o","r"," ","d","i","r","e","c","t",
      "o","r","y","\n">>

\* the command run by the container's shell: its effect on the container's
\* tree, its combined output and its exit code.  The commands are those of
\* the repository's test, and echo: wget is missing from a fresh image, `yum
\* install -y wget` adds it, wget then fetches a URL it is given, over a
\* network that answers.  No other command has a value here.
Exec(tree, command) ==
    LET shell(t, words) ==
            CASE Head(words) = Echo ->
                   [tree |-> t, out |-> EchoText(Tail(words), TRUE), exit |-> 0]
              [] Head(words) = Wget /\ ~HasFile(t, BinWget) ->
                   [tree |-> t, out |-> NotFound(Wget), exit |-> 127]
              [] words = <<Wget>> /\ HasFile(t, BinWget) ->
                   [tree |-> t, out |-> UsageText, exit |-> 1]
              [] words = <<Wget, DashQO, Url>> /\ HasFile(t, BinWget) ->
                   [tree |-> t, out |-> FetchedText, exit |-> 0]
              [] Head(words) = Yum /\ ~HasFile(t, BinYum) ->
                   [tree |-> t, out |-> NotFound(Yum), exit |-> 127]
              [] words = <<Yum, Install, DashY, Wget>> /\ HasFile(t, BinYum)
                 /\ Put(t, BinWget, <<"w">>).rc = 0 ->
                   [tree |-> Put(t, BinWget, <<"w">>).tree, out |-> YumText, exit |-> 0]
    IN  \* t is the tree and words the command's words, each computed once
        CHOOSE r \in {shell(t, words) : t \in {tree}, words \in {Words(command)}} : TRUE

\* the outcome of the unshare | tee pipeline: whether the container's shell
\* was brought up, what the pipeline printed, the tree it left and its exit
\* code under pipefail.  started is whether unshare may create the
\* namespaces on this host; chroot then needs /bin/sh in the container, and
\* the shell runs /bin/mount, which needs the directory /proc, before the
\* command.  NoProc when the script never reached the pipeline.
NoProc == [started |-> FALSE, exit |-> -1]
Launch(tree, command, started) ==
    LET piped(t) ==
            CASE ~started ->
                   [tree |-> t, out |-> UnshareErrorText, exit |-> 1, started |-> FALSE]
              [] started /\ BinSh \notin DOMAIN t ->
                   [tree |-> t, out |-> ChrootErrorText, exit |-> 127, started |-> FALSE]
              [] started /\ HasFile(t, BinSh) /\ BinMount \notin DOMAIN t ->
                   [tree |-> t, out |-> MountErrorText, exit |-> 127, started |-> TRUE]
              [] started /\ HasFile(t, BinSh) /\ HasFile(t, BinMount)
                 /\ ProcDir \notin DOMAIN t ->
                   [tree |-> t, out |-> MountPointText, exit |-> 32, started |-> TRUE]
              [] started /\ HasFile(t, BinSh) /\ HasFile(t, BinMount)
                 /\ HasDir(t, ProcDir) ->
                   [started |-> TRUE] @@ Exec(t, command)
    IN  \* t is the tree, computed once
        CHOOSE r \in {piped(t) : t \in {tree}} : TRUE

(***************************************************************************)
(* The shell scripts the handlers hand to _run_bash_command, run under     *)
(* errexit: the first failing command ends the script with its exit code.  *)
(***************************************************************************)
\* the script of init
InitScript(vols, directory, uuid) ==
    LET created == BtrfsCreate(vols, uuid)
        \* cp -rf dir/* into the new volume; it fails when the glob matches
        \* nothing: dir is empty, holds only names starting with a dot, or is
        \* a regular file
        source == HostTree(directory)
        copied == [p \in GlobStar(source) |-> source[p]]
        \* [[ ! -f img.source ]] && echo "dir" > img.source
        marked == Put(copied, ImgSource, EchoText(<<directory>>, TRUE))
    IN  CASE Quotable(directory) ->
            IF created.rc # 0 THEN created
            ELSE IF GlobStar(source) = {} THEN [rc |-> 1, vols |-> created.vols]
            ELSE IF HasFile(copied, ImgSource)
            THEN [rc |-> 0, vols |-> [created.vols EXCEPT ![uuid] = copied]]
            ELSE [rc |-> marked.rc, vols |-> [created.vols EXCEPT ![uuid] = marked.tree]]

\* mutant: the process given the image itself as its root, the container
\* being a copy taken afterwards
RunScript_shared(vols, image_id, uuid, command, started) ==
    LET snap == BtrfsSnapshot(vols, image_id, uuid)
        \* echo "command" > uuid/uuid.cmd
        recorded == Put(snap.vols[uuid], uuid \o CmdSuffix, EchoText(<<command>>, TRUE))
        \* cp /etc/resolv.conf uuid/etc/resolv.conf
        resolved == CopyFile(recorded.tree, Basename(ResolvConf), HostResolv, ResolvConf)
        \* unshare ... chroot ... 2>&1 | tee uuid/uuid.log || true; a tee that
        \* cannot open the log leaves the tree as the process left it
        ran == Launch(resolved.tree, command, started)
        logged == Put(ran.tree, uuid \o LogSuffix, ran.out)
    IN  CASE ShellPlain(command) /\ Quotable(image_id) ->
            IF snap.rc # 0 THEN [rc |-> snap.rc, vols |-> snap.vols, proc |-> NoProc]
            ELSE IF recorded.rc # 0
            THEN [rc |-> recorded.rc, vols |-> snap.vols, proc |-> NoProc]
            ELSE IF resolved.rc # 0
            THEN [rc |-> resolved.rc, vols |-> [snap.vols EXCEPT ![uuid] = recorded.tree],
                  proc |-> NoProc]
            ELSE [rc |-> 0,
                  vols |-> [snap.vols EXCEPT
                            ![uuid] = logged.tree,
                            ![image_id] = Launch(@, command, started).tree],
                  proc |-> [started |-> ran.started, exit |-> ran.exit]]

\* mutant: the container created as a new empty subvolume, not as a
\* snapshot of the image
RunScript_create(vols, image_id, uuid, command, started) ==
    LET snap == BtrfsCreate(vols, uuid)
        \* echo "command" > uuid/uuid.cmd
        recorded == Put(snap.vols[uuid], uuid \o CmdSuffix, EchoText(<<command>>, TRUE))
        \* cp /etc/resolv.conf uuid/etc/resolv.conf
        resolved == CopyFile(recorded.tree, Basename(ResolvConf), HostResolv, ResolvConf)
        \* unshare ... chroot ... 2>&1 | tee uuid/uuid.log || true; a tee that
        \* cannot open the log leaves the tree as the process left it
        ran == Launch(resolved.tree, command, started)
        logged == Put(ran.tree, uuid \o LogSuffix, ran.out)
    IN  CASE ShellPlain(command) /\ Quotable(image_id) ->
            IF snap.rc # 0 THEN [rc |-> snap.rc, vols |-> snap.vols, proc |-> NoProc]
            ELSE IF recorded.rc # 0
            THEN [rc |-> recorded.rc, vols |-> snap.vols, proc |-> NoProc]
            ELSE IF resolved.rc # 0
            THEN [rc |-> resolved.rc, vols |-> [snap.vols EXCEPT ![uuid] = recorded.tree],
                  proc |-> NoProc]
            ELSE [rc |-> 0,
                  vols |-> [snap.vols EXCEPT ![uuid] = logged.tree],
                  proc |-> [started |-> ran.started, exit |-> ran.exit]]

\* mutant: the pipeline without its trailing `|| true`
RunScript_nortrue(vols, image_id, uuid, command, started) ==
    LET snap == BtrfsSnapshot(vols, image_id, uuid)
        \* echo "command" > uuid/uuid.cmd
        recorded == Put(snap.vols[uuid], uuid \o CmdSuffix, EchoText(<<command>>, TRUE))
        \* cp /etc/resolv.conf uuid/etc/resolv.conf
        resolved == CopyFile(recorded.tree, Basename(ResolvConf), HostResolv, ResolvConf)
        \* unshare ... chroot ... 2>&1 | tee uuid/uuid.log || true; a tee that
        \* cannot open the log leaves the tree as the process left it
        ran == Launch(resolved.tree, command, started)
        logged == Put(ran.tree, uuid \o LogSuffix, ran.out)
    IN  CASE ShellPlain(command) /\ Quotable(image_id) ->
            IF snap.rc # 0 THEN [rc |-> snap.rc, vols |-> snap.vols, proc |-> NoProc]
            ELSE IF recorded.rc # 0
            THEN [rc |-> recorded.rc, vols |-> snap.vols, proc |-> NoProc]
            ELSE IF resolved.rc # 0
            THEN [rc |-> resolved.rc, vols |-> [snap.vols EXCEPT ![uuid] = recorded.tree],
                  proc |-> NoProc]
            ELSE [rc |-> ran.exit,
                  vols |-> [snap.vols EXCEPT ![uuid] = logged.tree],
                  proc |-> [started |-> ran.started, exit |-> ran.exit]]

\* the script of run; started is whether unshare may create the namespaces
\* on this host
RunScript(vols, image_id, uuid, command, started) ==
    LET snap == BtrfsSnapshot(vols, image_id, uuid)
        \* echo "command" > uuid/uuid.cmd
        recorded == Put(snap.vols[uuid], uuid \o CmdSuffix, EchoText(<<command>>, TRUE))
        \* cp /etc/resolv.conf uuid/etc/resolv.conf
        resolved == CopyFile(recorded.tree, Basename(ResolvConf), HostResolv, ResolvConf)
        \* unshare ... chroot ... 2>&1 | tee uuid/uuid.log || true; a tee that
        \* cannot open the log leaves the tree as the process left it
        ran == Launch(resolved.tree, command, started)
        logged == Put(ran.tree, uuid \o LogSuffix, ran.out)
    IN  CASE ShellPlain(command) /\ Quotable(image_id) ->
            IF snap.rc # 0 THEN [rc |-> snap.rc, vols |-> snap.vols, proc |-> NoProc]
            ELSE IF recorded.rc # 0
            THEN [rc |-> recorded.rc, vols |-> snap.vols, proc |-> NoProc]
            ELSE IF resolved.rc # 0
            THEN [rc |-> resolved.rc, vols |-> [snap.vols EXCEPT ![uuid] = recorded.tree],
                  proc |-> NoProc]
            ELSE [rc |-> 0,
                  vols |-> [snap.vols EXCEPT ![uuid] = logged.tree],
                  proc |-> [started |-> ran.started, exit |-> ran.exit]]

\* mutant: the script without errexit, ending with its echo
RmScript_noerrexit(vols, container_id) ==
    [rc |-> 0, vols |-> BtrfsDelete(vols, container_id).vols]

\* mutant: the script without its delete
RmScript_echo(vols, container_id) == [rc |-> 0, vols |-> vols]

\* mutant: the delete given a glob that matches every volume
RmScript_glob(vols, container_id) ==
    IF container_id \in DOMAIN vols THEN [rc |-> 0, vols |-> NoVols]
    ELSE [rc |-> 1, vols |-> vols]

\* the script of rm
RmScript(vols, container_id) == BtrfsDelete(vols, container_id)

\* mutant: the exercise's unfinished branch, a script that only prints
CommitScript_todo(vols, container_id, image_id) == [rc |-> 0, vols |-> vols]

\* mutant: the snapshot taken without deleting the image first
CommitScript_nodelete(vols, container_id, image_id) ==
    BtrfsSnapshot(vols, container_id, image_id)

\* mutant: the container renamed to the image id instead of snapshotted
CommitScript_move(vols, container_id, image_id) ==
    LET deleted == BtrfsDelete(vols, image_id)
    IN  IF deleted.rc # 0 THEN deleted
        ELSE IF container_id \notin DOMAIN deleted.vols
        THEN [rc |-> 1, vols |-> deleted.vols]
        ELSE [rc |-> 0,
              vols |-> [v \in (DOMAIN deleted.vols \ {container_id}) \cup {image_id}
                          |-> IF v = image_id THEN vols[container_id]
                              ELSE vols[v]]]

\* the two btrfs commands of commit's script, each a step of its own when
\* another caller runs at the same time
\* mutant: the image moved aside instead of deleted
CommitDeleteStep_staged(vols, image_id) ==
    [rc |-> IF image_id \in DOMAIN vols THEN 0 ELSE 1, vols |-> vols]

CommitDeleteStep(vols, image_id) == BtrfsDelete(vols, image_id)

\* mutant: the script without errexit, ending with its echo
CommitSnapshotStep_noerrexit(vols, container_id, image_id) ==
    [rc |-> 0, vols |-> BtrfsSnapshot(vols, container_id, image_id).vols]

CommitSnapshotStep(vols, container_id, image_id) ==
    BtrfsSnapshot(vols, container_id, image_id)

\* the script of commit: delete the image, then snapshot the container
CommitScript(vols, container_id, image_id) ==
    LET deleted == BtrfsDelete(vols, image_id)
    IN  IF deleted.rc # 0 THEN deleted
        ELSE BtrfsSnapshot(deleted.vols, container_id, image_id)

(***************************************************************************)
(* The handlers.  Each yields what the call returns (id, rc), the volumes  *)
(* it leaves and the id it drew (None when it drew none); reenter is TRUE  *)
(* when the call, having drawn a taken id, calls itself again; raised is   *)
(* TRUE when the call ends with RecursionError instead of returning (rc is *)
(* then -1: there is none); proc is the outcome of the process the call    *)
(* launched (NoProc when it launched none).  depth is the frame the call   *)
(* runs in: init and run have a value up to the frame below CheckDepth,    *)
(* the deepest they reach by calling themselves.                           *)
(***************************************************************************)
Return(id, rc, vols, uuid) ==
    [reenter |-> FALSE, raised |-> FALSE, id |-> id, rc |-> rc, vols |-> vols,
     uuid |-> uuid, proc |-> NoProc]
Reenter(vols, uuid) ==
    [reenter |-> TRUE, raised |-> FALSE, id |-> None, rc |-> 0, vols |-> vols,
     uuid |-> uuid, proc |-> NoProc]
Raise(vols, uuid) ==
    [reenter |-> FALSE, raised |-> TRUE, id |-> None, rc |-> -1, vols |-> vols,
     uuid |-> uuid, proc |-> NoProc]

\* mutant: the directory looked at only after the id is drawn and the
\* volume created
init_call_latecheck(vols, args, n, depth) ==
    IF Len(args) < 1 THEN Return(None, 1, vols, None)
    ELSE LET directory == args[1]
             uuid == generate_uuid(PrefixImg, n)
             done == InitScript(vols, directory, uuid)
         IN  IF docker_check(uuid, vols) THEN Reenter(vols, uuid)
             ELSE IF ~directory_exists(directory)
             THEN Return(None, 1, BtrfsCreate(vols, uuid).vols, uuid)
             ELSE IF done.rc = 0 THEN Return(uuid, 0, done.vols, uuid)
             ELSE Return(None, done.rc, done.vols, uuid)

\* mutant: the drawn id used without asking whether it is taken
init_call_nocollision(vols, args, n, depth) ==
    IF Len(args) < 1 THEN Return(None, 1, vols, None)
    ELSE LET directory == args[1]
             uuid == generate_uuid(PrefixImg, n)
             done == InitScript(vols, directory, uuid)
         IN  IF ~directory_exists(directory) THEN Return(None, 1, vols, None)
             ELSE IF done.rc = 0 THEN Return(uuid, 0, done.vols, uuid)
             ELSE Return(None, done.rc, done.vols, uuid)

\* init(args) in frame depth, n the value drawn
init_call(vols, args, n, depth) ==
    CASE depth <= CheckDepth + 1 ->
        IF Len(args) < 1 THEN Return(None, 1, vols, None)
        ELSE LET directory == args[1]
                 uuid == generate_uuid(PrefixImg, n)
                 done == InitScript(vols, directory, uuid)
             IN  IF ~directory_exists(directory) THEN Return(None, 1, vols, None)
                 \* the id is drawn; _docker_check(uuid) then overflows the stack
                 ELSE IF depth > CheckDepth THEN Raise(vols, uuid)
                 ELSE IF docker_check(uuid, vols) THEN Reenter(vols, uuid)
                 ELSE IF done.rc = 0 THEN Return(uuid, 0, done.vols, uuid)
                 ELSE Return(None, done.rc, done.vols, uuid)

\* rm(args)
rm_call(vols, args) ==
    IF Len(args) < 1 THEN Return(None, 1, vols, None)
    ELSE LET container_id == args[1]
             done == RmScript(vols, container_id)
         IN  IF ~docker_check(container_id, vols) THEN Return(None, 1, vols, None)
             ELSE Return(None, done.rc, done.vols, None)

\* run(args) in frame depth, n the value drawn, started whether unshare may
\* create the namespaces
run_call(vols, args, n, started, depth) ==
    CASE depth <= CheckDepth + 1 ->
        IF Len(args) < 2 THEN Return(None, 1, vols, None)
        ELSE LET image_id == args[1]
                 command == Join(Tail(args))
                 uuid == generate_uuid(PrefixPs, n)
                 done == RunScript(vols, image_id, uuid, command, started)
             IN  \* _docker_check(image_id) overflows the stack, no id being drawn
                 IF depth > CheckDepth THEN Raise(vols, None)
                 ELSE IF ~docker_check(image_id, vols) THEN Return(None, 1, vols, None)
                 ELSE IF Strip(command) = <<>> THEN Return(None, 1, vols, None)
                 ELSE IF docker_check(uuid, vols) THEN Reenter(vols, uuid)
                 ELSE [Return(None, done.rc, done.vols, uuid) EXCEPT !.proc = done.proc]

\* commit(args)
commit_call(vols, args) ==
    IF Len(args) < 2 THEN Return(None, 1, vols, None)
    ELSE LET container_id == args[1]
             image_id == args[2]
             done == CommitScript(vols, container_id, image_id)
         IN  IF ~docker_check(container_id, vols) THEN Return(None, 1, vols, None)
             ELSE IF ~docker_check(image_id, vols) THEN Return(None, 1, vols, None)
             ELSE Return(None, done.rc, done.vols, None)

\* _list_images: the volumes img_* in which img.source exists, with the
\* stripped marker
list_images(vols) ==
    {[id |-> v, source |-> Strip(TextRead(vols[v], ImgSource))] :
        v \in {w \in DOMAIN vols : StartsWith(w, PrefixImg)
                                   /\ ~IsSubstring(<<"/">>, w)
                                   /\ ImgSource \in DOMAIN vols[w]}}

\* _list_containers: the volumes ps_* in which <id>.cmd exists, with the
\* stripped command
list_containers(vols) ==
    {[id |-> v, command |-> Strip(TextRead(vols[v], v \o CmdSuffix))] :
        v \in {w \in DOMAIN vols : StartsWith(w, PrefixPs)
                                   /\ ~IsSubstring(<<"/">>, w)
                                   /\ (w \o CmdSuffix) \in DOMAIN vols[w]}}

(***************************************************************************)
(* State.                                                                  *)
(*   vols     the storage root: subvolume path -> file tree                *)
(*   pending  the init or run call that drew a taken id and is calling     *)
(*            itself again, with the frame it drew in (NoCall when no call *)
(*            is in progress)                                              *)
(*   last     the call that ended last: its name, arguments, returned id   *)
(*            and code or the fact that it raised, printed listing, drawn  *)
(*            id, and the volumes it found (pre)                           *)
(*   origin   for each id run has created a volume under, the image        *)
(*            argument of the latest run that did                          *)
(*   nops     the number of calls that have ended                          *)
(*   proc     the outcome of the process the last returned call launched   *)
(*   committed  for each existing volume a commit has succeeded onto and   *)
(*            that was not removed since, the content the commit's source  *)
(*            had when commit was called                                   *)
(*   callers  for each of two concurrent callers, the call it is making:   *)
(*            its name, arguments, position in the handler (pc), whether   *)
(*            its delete succeeded, whether its snapshot failed, whether   *)
(*            its container was removed under it, its return code and how  *)
(*            many calls it has made                                       *)
(***************************************************************************)
VARIABLES vols, pending, last, origin, nops, proc, committed, callers
vars == <<vols, pending, last, origin, nops, proc, committed, callers>>

Callers == {"a", "b"}
Idle == [op |-> "none", args |-> <<>>, pc |-> "idle", deleted |-> FALSE,
         snapfail |-> FALSE, lost |-> FALSE, rc |-> 0, calls |-> 0]

NoCall == [op |-> "none", args |-> <<>>, depth |-> 0]
Call(op, args, depth) == [op |-> op, args |-> args, depth |-> depth]

Init ==
    /\ vols = NoVols
    /\ pending = NoCall
    /\ last = [op |-> "none", args |-> <<>>, id |-> None, rc |-> 0,
               raised |-> FALSE, out |-> {}, uuid |-> None, pre |-> NoVols]
    /\ origin = [v \in {} |-> None]
    /\ nops = 0
    /\ proc = NoProc
    /\ committed = NoVols
    /\ callers = [k \in Callers |-> Idle]

(***************************************************************************)
(* Inputs.                                                                 *)
(***************************************************************************)
ImgIds == {generate_uuid(PrefixImg, n) : n \in DrawSpace}
PsIds == {generate_uuid(PrefixPs, n) : n \in DrawSpace}
Ids == ImgIds \cup PsIds
\* a proper substring of every id of the draw space
Stem == <<"_","4","2","0","0">>
\* a word of the listing that is part of no id
PathWord == <<"p","a","t","h">>
\* the ids, parts of the listing, and a string that occurs nowhere in it
ArgStrings ==
    Ids \cup {Stem, PathWord, <<"n","o","n","e","x","i","s","t","e","n","t">>}
Commands == {<<Wget>>, <<Yum, Install, DashY, Wget>>, <<Wget, DashQO, Url>>,
             <<Blank>>, <<BlankCR>>}

\* Spec: the calls a caller makes who passes ids where ids are expected
\* (run an image id, commit a container id and an image id) on a host where
\* unshare and chroot work; rm and init are also given names that do not exist
InitArgs == {<<DirBase>>, <<DirMarked>>, <<DirMissing>>}
RmArgs == {<<x>> : x \in ArgStrings}
RunArgs == {<<x>> \o c : x \in ImgIds, c \in {<<Yum, Install, DashY, Wget>>}}
CommitArgs == {<<x, y>> : x \in PsIds, y \in ImgIds}

\* SpecProc: well-formed calls running any of the commands, on a host where
\* unshare may fail to create the namespaces
ProcRunArgs == {<<x>> \o c : x \in ImgIds, c \in Commands \ {<<Blank>>, <<BlankCR>>}}

\* SpecArgs: calls with any number of arguments and arbitrary strings, the
\* empty string among them
AnyStrings == ArgStrings \cup {<<>>}
AnyInitArgs == {<<>>} \cup {<<d>> : d \in DirNames}
AnyRmArgs == {<<>>} \cup {<<x>> : x \in AnyStrings}
AnyRunArgs == {<<>>} \cup {<<x>> : x \in AnyStrings}
              \cup {<<x>> \o c : x \in AnyStrings, c \in Commands}
AnyCommitArgs == {<<>>} \cup {<<x>> : x \in AnyStrings}
                 \cup {<<x, y>> : x \in AnyStrings, y \in AnyStrings}

(***************************************************************************)
(* Actions: one per command of the program.  A call blocks its caller, so  *)
(* no other call starts while one is pending.                              *)
(***************************************************************************)
\* the commits still in force on the volumes vs
Kept(vs) == [v \in DOMAIN committed \cap DOMAIN vs |-> committed[v]]

Returned(op, args, r, out) ==
    /\ vols' = r.vols
    /\ pending' = NoCall
    /\ last' = [op |-> op, args |-> args, id |-> r.id, rc |-> r.rc,
                raised |-> r.raised, out |-> out, uuid |-> r.uuid, pre |-> vols]
    /\ nops' = nops + 1
    /\ proc' = r.proc
    /\ UNCHANGED callers

\* the frame the next init or run runs in: the caller's when no call is
\* pending, else the one below the frame that drew a taken id
Frame == IF pending = NoCall THEN CallerFrames + 1 ELSE pending.depth + 1
\* how many times the pending call has called itself
Retries == IF pending = NoCall THEN 0 ELSE pending.depth - CallerFrames

\* the call, having drawn a taken id, calls itself with the same arguments
Reentered(op, args) ==
    /\ pending' = Call(op, args, Frame)
    /\ UNCHANGED <<vols, last, origin, nops, proc, committed, callers>>

init(args, n) ==
    /\ pending = NoCall \/ (pending.op = "init" /\ pending.args = args)
    /\ \E r \in {init_call(vols, args, n, Frame)} :
           IF r.reenter
           THEN Reentered("init", args)
           ELSE /\ Returned("init", args, r, {})
                /\ committed' = Kept(r.vols)
                /\ UNCHANGED origin

rm(args) ==
    /\ pending = NoCall
    /\ LET r == rm_call(vols, args)
       IN  /\ Returned("rm", args, r, {})
           /\ committed' = Kept(r.vols)
           /\ UNCHANGED origin

run(args, n, started) ==
    /\ pending = NoCall \/ (pending.op = "run" /\ pending.args = args)
    /\ \E r \in {run_call(vols, args, n, started, Frame)} :
           IF r.reenter
           THEN Reentered("run", args)
           ELSE /\ Returned("run", args, r, {})
                /\ committed' = Kept(r.vols)
                /\ origin' = IF r.uuid \in DOMAIN r.vols
                             THEN (r.uuid :> args[1]) @@ origin
                             ELSE origin

commit(args) ==
    /\ pending = NoCall
    /\ LET r == commit_call(vols, args)
       IN  /\ Returned("commit", args, r, {})
           /\ committed' = IF Len(args) >= 2 /\ r.rc = 0
                            THEN (SubvolumePath(args[2])
                                    :> SubvolumeTree(vols, SubvolumePath(args[1])))
                                 @@ Kept(r.vols)
                            ELSE Kept(r.vols)
           /\ UNCHANGED origin

images ==
    /\ pending = NoCall
    /\ Returned("images", <<>>, Return(None, 0, vols, None),
                {<<i.id, i.source>> : i \in list_images(vols)})
    /\ UNCHANGED <<origin, committed>>

ps ==
    /\ pending = NoCall
    /\ Returned("ps", <<>>, Return(None, 0, vols, None),
                {<<c.id, c.command>> : c \in list_containers(vols)})
    /\ UNCHANGED <<origin, committed>>

\* Spec: a single caller's well-formed calls
InitCall == \E args \in InitArgs, n \in DrawSpace : nops + Retries < MaxOps /\ init(args, n)
RmCall == \E args \in RmArgs : nops < MaxOps /\ rm(args)
RunCall == \E args \in RunArgs, n \in DrawSpace : nops + Retries < MaxOps /\ run(args, n, TRUE)
CommitCall == \E args \in CommitArgs : nops < MaxOps /\ commit(args)
ImagesCall == nops < MaxOps /\ images
PsCall == nops < MaxOps /\ ps

Next == InitCall \/ RmCall \/ RunCall \/ CommitCall \/ ImagesCall \/ PsCall

Spec == Init /\ [][Next]_vars

\* SpecList: a single caller who makes images of directories with and
\* without a marker and of an empty directory, runs containers from them,
\* commits and lists the images
ListInitCall ==
    \E args \in {<<DirBase>>, <<DirMarked>>, <<DirEmpty>>}, n \in DrawSpace :
        nops + Retries < MaxListOps /\ init(args, n)
ListRunCall ==
    \E args \in {<<x, Wget>> : x \in ImgIds}, n \in DrawSpace :
        nops + Retries < MaxListOps /\ run(args, n, TRUE)
ListCommitCall == \E args \in CommitArgs : nops < MaxListOps /\ commit(args)
ListImagesCall == nops < MaxListOps /\ images

NextList == ListInitCall \/ ListRunCall \/ ListCommitCall \/ ListImagesCall

SpecList == Init /\ [][NextList]_vars

\* SpecDraw: a single caller making images, and containers of the first
\* image id, whose init and run call themselves as deep as the stack lets
\* them.  No call catches the RecursionError: it ends the caller.
FreeDraws(op) ==
    {n \in DrawSpace :
        ~docker_check((IF op = "init" THEN PrefixImg ELSE PrefixPs) \o Decimal(n),
                      vols)}
DrawInitCall ==
    \E n \in DrawSpace :
        nops < MaxDrawOps /\ ~last.raised /\ init(<<DirBase>>, n)
DrawRunCall ==
    \E n \in DrawSpace :
        /\ nops < MaxDrawOps /\ ~last.raised
        /\ run(<<generate_uuid(PrefixImg, DrawLo), Yum, Install, DashY, Wget>>, n, TRUE)

NextDraw == DrawInitCall \/ DrawRunCall

SpecDraw == Init /\ [][NextDraw]_vars

\* SpecFair: a single caller making images and containers, with fair draws.
\* random.randint draws every value of its range with the same probability
\* at every call, so a pending call that could draw a free id does not draw
\* taken ones forever.
DrawsFree ==
    \E n \in FreeDraws(pending.op) :
        \/ pending.op = "init" /\ init(pending.args, n)
        \/ pending.op = "run" /\ run(pending.args, n, TRUE)

FairInitCall ==
    \E n \in DrawSpace :
        nops < MaxFairOps /\ ~last.raised /\ init(<<DirBase>>, n)
FairRunCall ==
    \E args \in RunArgs, n \in DrawSpace :
        nops < MaxFairOps /\ ~last.raised /\ run(args, n, TRUE)

NextFair == FairInitCall \/ FairRunCall

SpecFair == Init /\ [][NextFair]_vars /\ WF_vars(DrawsFree)

\* SpecArgs: a single caller's calls with arbitrary arguments
AnyInitCall == \E args \in AnyInitArgs, n \in DrawSpace : nops + Retries < MaxArgOps /\ init(args, n)
AnyRmCall == \E args \in AnyRmArgs : nops < MaxArgOps /\ rm(args)
AnyRunCall ==
    \E args \in AnyRunArgs, n \in DrawSpace : nops + Retries < MaxArgOps /\ run(args, n, TRUE)
AnyCommitCall == \E args \in AnyCommitArgs : nops < MaxArgOps /\ commit(args)
AnyImagesCall == nops < MaxArgOps /\ images
AnyPsCall == nops < MaxArgOps /\ ps

NextArgs ==
    AnyInitCall \/ AnyRmCall \/ AnyRunCall \/ AnyCommitCall \/ AnyImagesCall \/ AnyPsCall

SpecArgs == Init /\ [][NextArgs]_vars

\* SpecProc: a single caller on a host where the process may not start
ProcInitCall ==
    \E args \in {<<DirBase>>, <<DirMarked>>}, n \in DrawSpace :
        nops + Retries < MaxProcOps /\ init(args, n)
ProcRmCall == \E x \in Ids : nops < MaxProcOps /\ rm(<<x>>)
ProcRunCall ==
    \E args \in ProcRunArgs, n \in DrawSpace, started \in BOOLEAN :
        nops + Retries < MaxProcOps /\ run(args, n, started)
ProcCommitCall == \E args \in CommitArgs : nops < MaxProcOps /\ commit(args)

NextProc == ProcInitCall \/ ProcRmCall \/ ProcRunCall \/ ProcCommitCall

SpecProc == Init /\ [][NextProc]_vars

(***************************************************************************)
(* SpecRace: two callers at once.  Nothing locks a volume id, so the        *)
(* handlers of the two callers interleave between any two of their         *)
(* subprocesses: each _docker_check (one `btrfs subvolume list`) and each  *)
(* btrfs command of a script is one step.  The callers start on the        *)
(* storage a first caller leaves after init and run.                       *)
(***************************************************************************)
RaceImage == generate_uuid(PrefixImg, DrawLo)
RaceContainer == generate_uuid(PrefixPs, DrawLo)
RaceVols ==
    run_call(init_call(NoVols, <<DirBase>>, DrawLo, CallerFrames + 1).vols,
             <<RaceImage, Yum, Install, DashY, Wget>>, DrawLo, TRUE,
             CallerFrames + 1).vols
RaceCalls == {[op |-> "commit", args |-> <<RaceContainer, RaceImage>>],
              [op |-> "rm", args |-> <<RaceContainer>>],
              [op |-> "rm", args |-> <<RaceImage>>]}

InitRace ==
    /\ vols = RaceVols
    /\ pending = NoCall
    /\ last = [op |-> "none", args |-> <<>>, id |-> None, rc |-> 0,
               raised |-> FALSE, out |-> {}, uuid |-> None, pre |-> NoVols]
    /\ origin = (RaceContainer :> RaceImage)
    /\ nops = 0
    /\ proc = NoProc
    /\ committed = NoVols
    /\ callers = [k \in Callers |-> Idle]

\* caller k moves to position pc of its handler
Goto(k, pc) == [callers EXCEPT ![k].pc = pc]
\* caller k's call returns rc
Done(k, rc) == [callers EXCEPT ![k].pc = "done", ![k].rc = rc]
UnchangedSingleCaller == UNCHANGED <<pending, last, origin, nops, proc, committed>>

\* caller k invokes commit or rm
race_begin(k, call) ==
    /\ callers[k].pc \in {"idle", "done"}
    /\ callers[k].calls < MaxRaceCalls
    /\ callers' = [callers EXCEPT ![k] =
                      [Idle EXCEPT !.op = call.op, !.args = call.args,
                                   !.pc = "check1", !.calls = callers[k].calls + 1]]
    /\ UNCHANGED vols
    /\ UnchangedSingleCaller

\* commit: if not _docker_check(container_id)
commit_check_container(k) ==
    /\ callers[k].op = "commit" /\ callers[k].pc = "check1"
    /\ callers' = IF docker_check(callers[k].args[1], vols)
                  THEN Goto(k, "check2") ELSE Done(k, 1)
    /\ UNCHANGED vols
    /\ UnchangedSingleCaller

\* commit: if not _docker_check(image_id)
commit_check_image(k) ==
    /\ callers[k].op = "commit" /\ callers[k].pc = "check2"
    /\ callers' = IF docker_check(callers[k].args[2], vols)
                  THEN Goto(k, "delete") ELSE Done(k, 1)
    /\ UNCHANGED vols
    /\ UnchangedSingleCaller

\* commit: btrfs subvolume delete image_id
commit_delete(k) ==
    /\ callers[k].op = "commit" /\ callers[k].pc = "delete"
    /\ LET d == CommitDeleteStep(vols, callers[k].args[2])
       IN  /\ vols' = d.vols
           /\ callers' = IF d.rc = 0
                         THEN [callers EXCEPT ![k].pc = "snapshot",
                                              ![k].deleted = TRUE]
                         ELSE Done(k, d.rc)
    /\ UnchangedSingleCaller

\* commit: btrfs subvolume snapshot container_id image_id, and the return
commit_snapshot(k) ==
    /\ callers[k].op = "commit" /\ callers[k].pc = "snapshot"
    /\ LET s == CommitSnapshotStep(vols, callers[k].args[1], callers[k].args[2])
       IN  /\ vols' = s.vols
           /\ callers' = [callers EXCEPT ![k].pc = "done", ![k].rc = s.rc,
                                         ![k].snapfail = (s.vols = vols)]
    /\ UnchangedSingleCaller

\* rm: if not _docker_check(container_id)
rm_check(k) ==
    /\ callers[k].op = "rm" /\ callers[k].pc = "check1"
    /\ callers' = IF docker_check(callers[k].args[1], vols)
                  THEN Goto(k, "delete") ELSE Done(k, 1)
    /\ UNCHANGED vols
    /\ UnchangedSingleCaller

\* rm: btrfs subvolume delete container_id, and the return; a commit of the
\* other caller that has checked this container and not yet snapshotted it
\* has lost it
rm_delete(k) ==
    /\ callers[k].op = "rm" /\ callers[k].pc = "delete"
    /\ LET d == RmScript(vols, callers[k].args[1])
       IN  /\ vols' = d.vols
           /\ callers' =
                 [j \in Callers |->
                    IF j = k THEN Done(k, d.rc)[k]
                    ELSE IF /\ d.rc = 0
                            /\ callers[j].op = "commit"
                            /\ callers[j].pc \in {"check2", "delete", "snapshot"}
                            /\ callers[j].args[1] = callers[k].args[1]
                    THEN [callers[j] EXCEPT !.lost = TRUE]
                    ELSE callers[j]]
    /\ UnchangedSingleCaller

RaceBegin == \E k \in Callers, call \in RaceCalls : race_begin(k, call)
RaceCommitCheckContainer == \E k \in Callers : commit_check_container(k)
RaceCommitCheckImage == \E k \in Callers : commit_check_image(k)
RaceCommitDelete == \E k \in Callers : commit_delete(k)
RaceCommitSnapshot == \E k \in Callers : commit_snapshot(k)
RaceRmCheck == \E k \in Callers : rm_check(k)
RaceRmDelete == \E k \in Callers : rm_delete(k)

NextRace ==
    \/ RaceBegin
    \/ RaceCommitCheckContainer \/ RaceCommitCheckImage
    \/ RaceCommitDelete \/ RaceCommitSnapshot
    \/ RaceRmCheck \/ RaceRmDelete

SpecRace == InitRace /\ [][NextRace]_vars

(***************************************************************************)
(* Properties.                                                             *)
(***************************************************************************)
IsImage(v) == StartsWith(v, PrefixImg)
IsContainer(v) == StartsWith(v, PrefixPs)
\* the last call returned was op with at least k arguments
LastWas(op, k) == last.op = op /\ Len(last.args) >= k

\* C1: when commit(c, i), c an existing container and i an existing image,
\* returns 0, volume i exists and its content is the content c had when
\* commit was called.
C1_CommitCopiesContainer ==
    (/\ LastWas("commit", 2)
     /\ last.args[1] \in DOMAIN last.pre /\ IsContainer(last.args[1])
     /\ last.args[2] \in DOMAIN last.pre /\ IsImage(last.args[2])
     /\ last.rc = 0)
    => /\ last.args[2] \in DOMAIN vols
       /\ vols[last.args[2]] = last.pre[last.args[1]]

\* a commit of an existing container onto an existing image of other content
\* has returned 0
C1_Witness ==
    /\ LastWas("commit", 2)
    /\ last.rc = 0
    /\ last.args[1] \in DOMAIN last.pre /\ IsContainer(last.args[1])
    /\ last.args[2] \in DOMAIN last.pre /\ IsImage(last.args[2])
    /\ last.pre[last.args[2]] # last.pre[last.args[1]]

\* C2: when at least one argument of commit(containerId, imageId) is not the
\* id of an existing volume, commit returns non-zero and leaves the volumes
\* and their content as they were.
C2_CommitNotFoundNoMutation ==
    (/\ LastWas("commit", 2)
     /\ (last.args[1] \notin DOMAIN last.pre \/ last.args[2] \notin DOMAIN last.pre))
    => (last.rc # 0 /\ vols = last.pre)

\* C3: whatever its arguments and outcome, commit leaves every container
\* volume existing with its content, and creates no container volume.
C3_CommitKeepsContainers ==
    last.op = "commit"
    => /\ \A c \in DOMAIN last.pre :
             IsContainer(c) => (c \in DOMAIN vols /\ vols[c] = last.pre[c])
       /\ \A c \in DOMAIN vols : IsContainer(c) => c \in DOMAIN last.pre

\* C4: commit draws no id, and a commit that returns 0 leaves the set of
\* volume ids as it was: in the call that returned last, and for every pair
\* of ids it could be given in the present state.
C4_CommitAllocatesNoId ==
    /\ last.op = "commit" => last.uuid = None
    /\ (last.op = "commit" /\ last.rc = 0) => DOMAIN vols = DOMAIN last.pre
    /\ \A x \in Ids, y \in Ids :
          LET r == commit_call(vols, <<x, y>>)
          IN  r.uuid = None /\ (r.rc = 0 => DOMAIN r.vols = DOMAIN vols)

\* a commit has returned 0 with several volumes in the storage root
C4_Witness ==
    /\ LastWas("commit", 2)
    /\ last.rc = 0
    /\ Cardinality(DOMAIN last.pre) >= 2

\* C5: for every existing directory D, whatever it holds, init(D) returns an
\* image id with code 0, the volume of that id exists, and its img.source
\* records exactly D.
C5_InitRecordsDirectory ==
    (LastWas("init", 1) /\ directory_exists(last.args[1]))
    => /\ last.rc = 0
       /\ last.id # None
       /\ last.id \in DOMAIN vols
       /\ HasFile(vols[last.id], ImgSource)
       /\ Strip(vols[last.id][ImgSource]) = last.args[1]

\* C6: for a directory D that does not exist, init(D) returns (None, 1),
\* draws no id and leaves the set of volumes and their content as they were.
C6_InitMissingDirectory ==
    (LastWas("init", 1) /\ ~directory_exists(last.args[1]))
    => /\ last.id = None
       /\ last.rc = 1
       /\ last.uuid = None
       /\ vols = last.pre

\* init of a missing directory has returned while volumes exist
C6_Witness ==
    /\ LastWas("init", 1)
    /\ last.args[1] = DirMissing
    /\ last.rc = 1
    /\ last.pre # NoVols

\* C7: the id under which init creates a volume starts with img_, the id
\* under which run creates one starts with ps_, and no volume of that id
\* exists when the call creates it.
C7_IssuedIdsFresh ==
    /\ (last.op = "init" /\ last.uuid # None)
       => (StartsWith(last.uuid, PrefixImg) /\ last.uuid \notin DOMAIN last.pre)
    /\ (last.op = "run" /\ last.uuid # None)
       => (StartsWith(last.uuid, PrefixPs) /\ last.uuid \notin DOMAIN last.pre)
    /\ (last.op = "init" /\ last.id # None) => last.id = last.uuid

\* init or run has created a volume while another volume of the same prefix
\* existed: a draw could have collided
C7_Witness ==
    /\ last.op \in {"init", "run"}
    /\ last.uuid # None
    /\ last.uuid \in DOMAIN vols
    /\ \E v \in DOMAIN last.pre :
          StartsWith(v, IF last.op = "init" THEN PrefixImg ELSE PrefixPs)

\* C8: for every string that is not the id of an existing volume, substrings
\* of ids and of the listing included, rm returns 1 and leaves the volumes
\* and their content as they were.
C8_RmNotFound ==
    (LastWas("rm", 1) /\ last.args[1] \notin DOMAIN last.pre)
    => (last.rc = 1 /\ vols = last.pre)

\* rm of a string that occurs in the listing and is no volume's id has
\* returned
C8_Witness ==
    /\ LastWas("rm", 1)
    /\ last.args[1] \in {Stem, PathWord}
    /\ docker_check(last.args[1], last.pre)
    /\ last.rc = 1

ListedImages(vs) == {i.id : i \in list_images(vs)}
ListedContainers(vs) == {c.id : c \in list_containers(vs)}

\* after rm(x) of an existing volume x returned 0: x is gone and in no
\* listing, and every other volume is there with its content
C9_RmRemoves ==
    (LastWas("rm", 1) /\ last.args[1] \in DOMAIN last.pre /\ last.rc = 0)
    => /\ last.args[1] \notin DOMAIN vols
       /\ last.args[1] \notin ListedImages(vols) \cup ListedContainers(vols)
       /\ DOMAIN vols = DOMAIN last.pre \ {last.args[1]}
       /\ \A v \in DOMAIN vols : vols[v] = last.pre[v]

\* what images and ps print names existing volumes only
C9_ListingsOmitAbsent ==
    last.op \in {"images", "ps"} => \A e \in last.out : e[1] \in DOMAIN last.pre

\* a volume id that is absent comes to exist only by an init or run that
\* draws it
C9_OnlyIssuanceRevives ==
    \A x \in Ids :
        (x \notin DOMAIN vols /\ x \in DOMAIN vols')
        => (last'.op \in {"init", "run"} /\ last'.uuid = x)

\* C9: after rm(x) of an existing image or container x returns 0, volume x
\* no longer exists, no images or ps listing shows x until an init or run
\* issues that id again, and every other volume exists with unchanged
\* content.
C9_RmThenOmitted ==
    /\ [](C9_RmRemoves /\ C9_ListingsOmitAbsent)
    /\ [][C9_OnlyIssuanceRevives]_vars

\* rm of a listed volume has returned 0 and left other volumes behind
C9_Witness ==
    /\ LastWas("rm", 1)
    /\ last.rc = 0
    /\ last.args[1] \in ListedImages(last.pre) \cup ListedContainers(last.pre)
    /\ vols # NoVols

\* C10: after run(i, cmd) created container c, an rm(i) that returns 0
\* leaves c existing with unchanged content; c is then listed by ps,
\* commit(c, j) onto every image j that still exists returns 0 and gives j
\* the content of c, and rm(c) returns 0 and removes c.
C10_ContainerOutlivesImage ==
    (LastWas("rm", 1) /\ IsImage(last.args[1]) /\ last.rc = 0)
    => \A c \in DOMAIN last.pre :
          (c \in DOMAIN origin /\ origin[c] = last.args[1])
          => /\ c \in DOMAIN vols
             /\ vols[c] = last.pre[c]
             /\ c \in ListedContainers(vols)
             /\ \A j \in DOMAIN vols :
                   IsImage(j) =>
                      LET r == commit_call(vols, <<c, j>>)
                      IN  r.rc = 0 /\ j \in DOMAIN r.vols /\ r.vols[j] = vols[c]
             /\ LET d == rm_call(vols, <<c>>)
                IN  d.rc = 0 /\ c \notin DOMAIN d.vols

\* the image a container was created from has been removed while the
\* container and another image exist
C10_Witness ==
    /\ LastWas("rm", 1)
    /\ IsImage(last.args[1])
    /\ last.rc = 0
    /\ \E c \in DOMAIN vols : c \in DOMAIN origin /\ origin[c] = last.args[1]
    /\ \E j \in DOMAIN vols : IsImage(j)

\* C11: the content of an existing image changes only through a commit whose
\* target is that image: a run from the image, the writes of the processes
\* in its containers and the removal of those containers leave it as it was.
C11_ImageChangesOnlyByCommit ==
    [][\A i \in DOMAIN vols \cap DOMAIN vols' :
          (IsImage(i) /\ vols'[i] # vols[i])
          => (last'.op = "commit" /\ Len(last'.args) >= 2 /\ last'.args[2] = i
              /\ nops' = nops + 1)]_vars

\* a run from an image whose process wrote a file the image does not hold,
\* the image being what it was before the run
C11_Witness ==
    /\ LastWas("run", 2) /\ last.rc = 0
    /\ last.args[1] \in DOMAIN vols /\ IsImage(last.args[1])
    /\ last.uuid \in DOMAIN vols
    /\ HasFile(vols[last.uuid], BinWget)
    /\ ~HasFile(vols[last.args[1]], BinWget)
    /\ vols[last.args[1]] = last.pre[last.args[1]]

\* C12: a non-zero exit of the command is not a failure of run: for an
\* existing image and a non-blank command, when the snapshot, the command
\* record and the copy of resolv.conf succeed, run returns 0 whatever the
\* command's exit code, and the container persists with its command record
\* and its log.
C12_CommandExitIgnored ==
    (/\ LastWas("run", 2)
     /\ last.args[1] \in DOMAIN last.pre /\ IsImage(last.args[1])
     /\ Strip(Join(Tail(last.args))) # <<>>
     /\ HasDir(last.pre[last.args[1]], EtcDir))
    => /\ last.rc = 0
       /\ last.uuid \in DOMAIN vols
       /\ last.uuid \in ListedContainers(vols)
       /\ vols[last.uuid][last.uuid \o CmdSuffix] = Join(Tail(last.args)) \o NL
       /\ HasFile(vols[last.uuid], last.uuid \o LogSuffix)

\* a run whose command started and exited with a non-zero code
C12_Witness ==
    /\ LastWas("run", 2) /\ last.rc = 0
    /\ proc.started /\ proc.exit # 0
    /\ last.uuid \in ListedContainers(vols)
    /\ vols[last.uuid][last.uuid \o LogSuffix] = NotFound(Wget)

\* C13: a failure to start the isolated process is reported by run as a
\* failure of its own: what run returns when unshare or chroot cannot start
\* the process differs from what it returns when the process started and the
\* command exited with a non-zero code.
C13_StartFailureDistinct ==
    (/\ LastWas("run", 2)
     /\ proc # NoProc /\ ~proc.started
     /\ RunScript(last.pre, last.args[1], last.uuid,
                  Join(Tail(last.args)), TRUE).proc.exit # 0)
    => last.rc # RunScript(last.pre, last.args[1], last.uuid,
                           Join(Tail(last.args)), TRUE).rc

\* C14: validation fails fast: whenever init, rm, run or commit is given too
\* few arguments, or run is given an image id that is not the id of an
\* existing image or a blank command, the call returns 1, no id has been
\* drawn and the volumes are what they were.
C14_FailFast ==
    (\/ last.op \in {"init", "rm"} /\ Len(last.args) < 1
     \/ last.op \in {"run", "commit"} /\ Len(last.args) < 2
     \/ /\ LastWas("run", 2)
        /\ \/ ~(last.args[1] \in DOMAIN last.pre /\ IsImage(last.args[1]))
           \/ Strip(Join(Tail(last.args))) = <<>>)
    => (last.rc = 1 /\ last.uuid = None /\ vols = last.pre)

\* C15: after a commit(B, i) has succeeded, every container a later
\* run(i, ...) creates starts from the content B had when commit was called:
\* every file of that content is in the new container with the same data,
\* but for the three files run writes itself (its command record, its log
\* and resolv.conf).
C15_RunStartsFromCommit ==
    (/\ LastWas("run", 2)
     /\ last.uuid \in DOMAIN vols \ DOMAIN last.pre
     /\ last.args[1] \in DOMAIN committed)
    => \A p \in DOMAIN committed[last.args[1]] \
                   {last.uuid \o CmdSuffix, last.uuid \o LogSuffix, ResolvConf} :
           /\ p \in DOMAIN vols[last.uuid]
           /\ vols[last.uuid][p] = committed[last.args[1]][p]

\* a container created from a committed image holds the command record of
\* another container and the file that container's process installed
C15_Witness ==
    /\ LastWas("run", 2) /\ last.rc = 0
    /\ last.uuid \in DOMAIN vols \ DOMAIN last.pre
    /\ last.args[1] \in DOMAIN committed
    /\ HasFile(committed[last.args[1]], BinWget)
    /\ \E b \in PsIds \ {last.uuid} :
          /\ HasFile(committed[last.args[1]], b \o CmdSuffix)
          /\ HasFile(vols[last.uuid], b \o CmdSuffix)
          /\ HasFile(vols[last.uuid], b \o LogSuffix)

\* C16: commit deletes, then snapshots, and the two steps are not one: when,
\* both checks passed, the delete of the image succeeded and the snapshot
\* then failed, commit has returned a non-zero code and the image id has no
\* backing volume.
C16_CommitNotAtomic ==
    \A k \in Callers :
        (callers[k].op = "commit" /\ callers[k].deleted /\ callers[k].snapfail)
        => /\ callers[k].pc = "done"
           /\ callers[k].rc # 0
           /\ callers[k].args[2] \notin DOMAIN vols

\* a commit that deleted the image and whose snapshot failed
C16_Witness ==
    \E k \in Callers :
        /\ callers[k].op = "commit" /\ callers[k].pc = "done"
        /\ callers[k].deleted /\ callers[k].snapfail
        /\ callers[k].args[2] \in DOMAIN RaceVols
        /\ callers[k].args[2] \notin DOMAIN vols

\* C17: nothing locks an id.  Of two concurrent callers, one commits c onto
\* i and the other removes c after the commit has checked it and before the
\* commit has snapshotted it: whenever that happens the commit returns a
\* non-zero code and image i ends with no backing volume.
C17_RaceDestroysImage ==
    \A k \in Callers :
        (callers[k].op = "commit" /\ callers[k].lost /\ callers[k].pc = "done")
        => /\ callers[k].rc # 0
           /\ callers[k].args[2] \notin DOMAIN vols

\* both callers passed their checks; the rm returned 0 and the commit, having
\* deleted the image, failed: neither the container nor the image is left
C17_Witness ==
    \E k \in Callers, j \in Callers :
        /\ callers[k].op = "commit" /\ callers[k].pc = "done"
        /\ callers[k].lost /\ callers[k].deleted /\ callers[k].rc # 0
        /\ callers[j].op = "rm" /\ callers[j].pc = "done" /\ callers[j].rc = 0
        /\ callers[j].args = <<callers[k].args[1]>>
        /\ DOMAIN vols = {}

\* C18: id issuance redraws on a collision until it draws a free id: while
\* an id of the prefix is free and the draws are fair, an init (of an
\* existing directory) or a run (of an existing image and a non-blank
\* command) that drew a taken id eventually draws a free one and creates the
\* volume under it.
C18_RedrawFindsFreeId ==
    (pending # NoCall /\ FreeDraws(pending.op) # {})
    ~> (/\ pending = NoCall /\ last.op \in {"init", "run"}
        /\ last.uuid \in DOMAIN vols \ DOMAIN last.pre)

\* every id of the prefix of op is taken
Exhausted(op) ==
    \A n \in DrawSpace :
        docker_check((IF op = "init" THEN PrefixImg ELSE PrefixPs) \o Decimal(n), vols)

\* an init or run that returns while every id of its prefix is taken is one
\* its validation rejected, and it has drawn no id
ExhaustedReturnsRejected ==
    LET \* the checks init and run make before they draw an id
        RejectedByValidation(op, args, vs) ==
            IF op = "init" THEN Len(args) < 1 \/ ~directory_exists(args[1])
            ELSE \/ Len(args) < 2
                 \/ ~docker_check(args[1], vs)
                 \/ Strip(Join(Tail(args))) = <<>>
    IN
    \A op \in {"init", "run"} :
        (nops' = nops + 1 /\ last'.op = op /\ ~last'.raised /\ Exhausted(op))
        => (/\ RejectedByValidation(op, last'.args, vols)
            /\ last'.rc = 1 /\ last'.uuid = None /\ vols' = vols)

\* C19: the retry of id issuance has no bound: while every id of the prefix
\* is taken, an init or run that passed its validation neither returns nor
\* creates a volume, whatever it draws (it only calls itself again); the
\* only init or run that returns in such a state is one its validation
\* rejected, and it has drawn no id.
C19_RetryUnbounded ==
    [][/\ (pending # NoCall /\ Exhausted(pending.op))
          => (/\ pending'.op = pending.op /\ pending'.args = pending.args
              /\ vols' = vols /\ last' = last /\ nops' = nops)
       /\ ExhaustedReturnsRejected]_vars

\* C20: a commit onto image i touches no container: every container created
\* from i before a successful commit(B, i), B among them, still exists after
\* it with the content it had before, and is still listed by ps.
C20_CommitKeepsEarlierContainers ==
    (/\ LastWas("commit", 2) /\ last.rc = 0
     /\ IsContainer(last.args[1]) /\ IsImage(last.args[2]))
    => \A c \in DOMAIN last.pre \cap DOMAIN origin :
           (IsContainer(c) /\ origin[c] = last.args[2])
           => /\ c \in DOMAIN vols
              /\ vols[c] = last.pre[c]
              /\ c \in ListedContainers(vols)

\* a successful commit onto an image two containers were created from, the
\* committed one and another, that changed the image
C20_Witness ==
    /\ LastWas("commit", 2) /\ last.rc = 0
    /\ vols[last.args[2]] # last.pre[last.args[2]]
    /\ last.args[1] \in DOMAIN origin /\ origin[last.args[1]] = last.args[2]
    /\ \E c \in DOMAIN last.pre \cap DOMAIN origin :
          /\ c # last.args[1] /\ origin[c] = last.args[2]
          /\ c \in ListedContainers(vols)

\* C21: an image stays listed across commits with the provenance of its new
\* content: after a successful commit(c, i) of a container c onto an image i
\* the images listing holds i, and the source it reports for i is the
\* img.source held in c's volume (stripped), whatever directory i was made
\* of; an image volume that holds no img.source is in no listing although it
\* exists; images prints exactly this listing.
C21_ListingFollowsMarker ==
    /\ (/\ LastWas("commit", 2) /\ last.rc = 0
        /\ IsContainer(last.args[1]) /\ IsImage(last.args[2]))
       => (/\ last.args[2] \in ListedImages(vols)
           /\ HasFile(last.pre[last.args[1]], ImgSource)
           /\ [id |-> last.args[2],
               source |-> Strip(TextRead(last.pre[last.args[1]], ImgSource))]
              \in list_images(vols))
    /\ \A v \in DOMAIN vols :
          (IsImage(v) /\ ~HasFile(vols[v], ImgSource))
          => v \notin ListedImages(vols)
    /\ last.op = "images"
       => last.out = {<<i.id, i.source>> : i \in list_images(vols)}
====
